---- MODULE Spec2Model ----
(***************************************************************************)
(* Model of MapReader (src/src/map_reader.py): the OpenStreetMap reader    *)
(* and its node interpolation, MapReader.interpolate_nodes.                *)
(*                                                                         *)
(* Numbers.  Latitudes, longitudes and the step size are Python floats.    *)
(* They are modelled by exact integers counted in ticks: one grid unit is  *)
(* Scale ticks, every coordinate the map service knows is a whole number   *)
(* of grid units, and Scale is a multiple of every (n_divisions - 1) that  *)
(* can occur, so that every sample numpy.linspace produces is a whole      *)
(* number of ticks.  Arithmetic is therefore exact real arithmetic;        *)
(* floating-point rounding is not modelled.  Distances are compared        *)
(* through their squares, which is exact.                                  *)
(***************************************************************************)
EXTENDS Integers, Sequences, FiniteSets, TLC

VARIABLES
    step_size,          \* self._step_size
    overpass_result,    \* self._overpass_result: a dict, {} or {"elements": [...]}
    node_coordinates,   \* self._node_coordinates: dict node id -> (lat, lon)
    outcome,            \* how the call of interpolate_nodes ended: "none" before
                        \* the call, "returned", or the name of the exception
    pre_result,         \* overpass_result when interpolate_nodes was called
    pre_coordinates,    \* node_coordinates when interpolate_nodes was called
    queried             \* node ids passed to _get_node_lat_lon during the call

vars == <<step_size, overpass_result, node_coordinates, outcome,
          pre_result, pre_coordinates, queried>>

(***************************************************************************)
(* Bounds and the data the model draws its inputs from.                    *)
(***************************************************************************)
\* Longest node list of a way in a loaded result set.
MaxWayLen == 2

\* Ticks per grid unit (see the header): a multiple of 1..6.
Scale == 3 * 4 * 5

\* The map the remote service holds: node id i lies at OsmNodes[i], in grid
\* units.  Distances: 1-2 is 2, 1-3 is 5, 2-3 is sqrt(13).
OsmNodes == <<  <<0, 0>>, <<0, 2>>, <<3, 4>>  >>

NodeIds == DOMAIN OsmNodes

\* The ids of the ways of a result set.  OSM numbers nodes, ways and
\* relations separately, so a way and a node may carry the same id.
WayIds == <<1, 2>>

\* Step sizes a caller sets, in ticks: negative, zero, the default, and one
\* that does not divide the distances of the map.
StepSizes == {-Scale, 0, Scale, 2 * Scale}

\* Python's None (and any other empty, falsy value).
None == <<>>

(***************************************************************************)
(* MapReader.__init__                                                      *)
(***************************************************************************)
\* self._step_size = 0.0001, taken as one grid unit.
DefaultStepSize == 1 * Scale

EmptyDict == <<>>

Init ==
    /\ step_size = DefaultStepSize
    /\ overpass_result = EmptyDict
    /\ node_coordinates = EmptyDict
    /\ outcome = "none"
    /\ pre_result = EmptyDict
    /\ pre_coordinates = EmptyDict
    /\ queried = <<>>

(***************************************************************************)
(* Result sets: the JSON shape of an Overpass answer.                      *)
(***************************************************************************)
NodeElement(i) ==
    [type |-> "node", id |-> i,
     lat |-> OsmNodes[i][1] * Scale, lon |-> OsmNodes[i][2] * Scale]

WayElement(k, ns) == [type |-> "way", id |-> k, nodes |-> ns]

RelationElement == [type |-> "relation", id |-> 1, members |-> <<>>]

\* The elements of r, [] when r is the empty dict.
Elements(r) == IF "elements" \in DOMAIN r THEN r["elements"] ELSE <<>>

IsLoaded == "elements" \in DOMAIN overpass_result

\* The ids of S in increasing order.
RECURSIVE SortedIds(_)
SortedIds(S) ==
    IF S = {} THEN <<>>
    ELSE LET m == CHOOSE x \in S : \A y \in S : x <= y
         IN <<m>> \o SortedIds(S \ {m})

WayNodeLists == UNION {[1..n -> NodeIds] : n \in 0..MaxWayLen}

\* A result set: the nodes `present`, one way per entry of `lists`, a relation.
ResultSet(present, lists) ==
    [elements |->
        [k \in 1..Cardinality(present) |-> NodeElement(SortedIds(present)[k])]
        \o [k \in 1..Len(lists) |-> WayElement(WayIds[k], lists[k])]
        \o <<RelationElement>>]

NodesOf(lists) == UNION {{lists[k][j] : j \in DOMAIN lists[k]} : k \in DOMAIN lists}

(***************************************************************************)
(* Python dicts.                                                           *)
(***************************************************************************)
\* d.get(k, None)
Get(d, k) == IF k \in DOMAIN d THEN d[k] ELSE None

\* d[k] = v
Put(d, k, v) == [x \in DOMAIN d \cup {k} |-> IF x = k THEN v ELSE d[x]]

(***************************************************************************)
(* Geometry helpers.                                                       *)
(***************************************************************************)
\* distance(a, b) squared: (a_x - b_x)**2 + (a_y - b_y)**2; the code takes
\* the square root, the model compares squares instead.
Distance2(a, b) == (a[1] - b[1]) * (a[1] - b[1]) + (a[2] - b[2]) * (a[2] - b[2])

\* dist > self.step_size, with dist = sqrt(d2) >= 0.
DistExceeds(d2, step) == step < 0 \/ d2 > step * step

\* The largest q >= from with q * |step| <= sqrt(d2).
RECURSIVE FloorQuot(_, _, _)
FloorQuot(d2, step, from) ==
    IF (from + 1) * (from + 1) * step * step > d2 THEN from
    ELSE FloorQuot(d2, step, from + 1)

\* The least q >= from with q * |step| >= sqrt(d2).
RECURSIVE CeilQuot(_, _, _)
CeilQuot(d2, step, from) ==
    IF from * from * step * step >= d2 THEN from
    ELSE CeilQuot(d2, step, from + 1)

\* int((dist // self.step_size) + 1) for step # 0: Python's // floors, so a
\* negative step gives the negated ceiling.
NDivisions(d2, step) ==
    IF step > 0 THEN FloorQuot(d2, step, 0) + 1
    ELSE 1 - CeilQuot(d2, step, 0)

\* np.linspace(start, stop, num) for num >= 0: num evenly spaced samples from
\* start to stop, both included; [start] when num = 1.
Linspace(start, stop, num) ==
    [k \in 1..num |->
        IF num = 1 THEN start
        ELSE start + ((k - 1) * (stop - start)) \div (num - 1)]

\* The number of decimal digits of n >= 0.
RECURSIVE Digits(_)
Digits(n) == IF n < 10 THEN 1 ELSE 1 + Digits(n \div 10)

RECURSIVE Pow10(_)
Pow10(n) == IF n = 0 THEN 1 ELSE 10 * Pow10(n - 1)

\* The field width of f"{sub_id:03}".
PadWidth == 3

\* int(str(curr_node) + f"{sub_id:03}"): the decimal digits of sub_id, zero
\* padded to at least PadWidth digits, written after those of curr_node.
AdditionalNodeId(curr_node, sub_id) ==
    LET width == IF Digits(sub_id) > PadWidth THEN Digits(sub_id) ELSE PadWidth
    IN IF curr_node >= 0 THEN curr_node * Pow10(width) + sub_id
       ELSE -((-curr_node) * Pow10(width) + sub_id)

(***************************************************************************)
(* The coordinate-resolution collaborator.                                 *)
(***************************************************************************)
\* self._get_node_lat_lon(node_id)["elements"][0], read as [lat, lon]: the
\* node's coordinate on the service's map, None when the service fails or
\* does not know the node.  `down` are the ids the service fails for.
GetNodeLatLon(node_id, down) ==
    IF node_id \in down \/ node_id \notin NodeIds THEN None
    ELSE <<OsmNodes[node_id][1] * Scale, OsmNodes[node_id][2] * Scale>>

(***************************************************************************)
(* MapReader.interpolate_nodes.  The run is threaded through a record s:   *)
(*   s.elements  the list modified_overpass_result["elements"], which is   *)
(*               the very list self._overpass_result["elements"] (the      *)
(*               dict copy of line 103 is shallow);                        *)
(*   s.coords    self._node_coordinates;                                   *)
(*   s.queried   the ids asked of _get_node_lat_lon so far;                *)
(*   s.exc       "none", or the exception that ended the run.              *)
(***************************************************************************)
Raise(s, name) == [s EXCEPT !.exc = name]

\* Lines 145-161: one node element per sample, appended to the elements, to
\* the way's new node list and to the coordinate dict.
RECURSIVE AddNodes(_, _, _, _, _, _)
AddNodes(s, new_way_nodes, ids, lats, lons, k) ==
    IF k > Len(ids) THEN [s |-> s, new_way_nodes |-> new_way_nodes]
    ELSE LET new_node == [type |-> "node", id |-> ids[k],
                          lat |-> lats[k], lon |-> lons[k]]
         IN AddNodes([s EXCEPT !.elements = Append(@, new_node),
                               !.coords = Put(@, ids[k], <<new_node.lat, new_node.lon>>)],
                     Append(new_way_nodes, ids[k]), ids, lats, lons, k + 1)

\* Lines 131-161: the samples of one segment, given both coordinates.
Densify(s, new_way_nodes, curr_node, curr_node_coord, next_node_coord) ==
    LET d2 == Distance2(curr_node_coord, next_node_coord)
    IN IF ~DistExceeds(d2, step_size)
       THEN [s |-> s, new_way_nodes |-> new_way_nodes]
       ELSE IF step_size = 0
       THEN [s |-> Raise(s, "ZeroDivisionError"), new_way_nodes |-> new_way_nodes]
       ELSE LET n_divisions == NDivisions(d2, step_size)
            IN IF n_divisions < 0
               THEN [s |-> Raise(s, "ValueError"), new_way_nodes |-> new_way_nodes]
               ELSE AddNodes(s, new_way_nodes,
                             [sub \in 1..n_divisions |-> AdditionalNodeId(curr_node, sub - 1)],
                             Linspace(curr_node_coord[1], next_node_coord[1], n_divisions),
                             Linspace(curr_node_coord[2], next_node_coord[2], n_divisions),
                             1)

\* Lines 119-161: the segment from curr_node to next_node.  Both coordinates
\* are looked up first; a missing one is asked of the collaborator, the
\* current node's before the next node's, and kept in a local only.
Segment(s, new_way_nodes, curr_node, next_node, down) ==
    LET next_get == Get(s.coords, next_node)
        curr_get == Get(s.coords, curr_node)
        s1 == IF curr_get = None
              THEN [s EXCEPT !.queried = Append(@, curr_node)] ELSE s
        curr_node_coord == IF curr_get = None
                           THEN GetNodeLatLon(curr_node, down) ELSE curr_get
        s2 == IF next_get = None
              THEN [s1 EXCEPT !.queried = Append(@, next_node)] ELSE s1
        next_node_coord == IF next_get = None
                           THEN GetNodeLatLon(next_node, down) ELSE next_get
    IN IF curr_node_coord = None
       THEN [s |-> Raise(s1, "LookupError"), new_way_nodes |-> new_way_nodes]
       ELSE IF next_node_coord = None
       THEN [s |-> Raise(s2, "LookupError"), new_way_nodes |-> new_way_nodes]
       ELSE Densify(s2, new_way_nodes, curr_node, curr_node_coord, next_node_coord)

\* Lines 113-161: the loop over the way's nodes.
RECURSIVE WayLoop(_, _, _, _, _)
WayLoop(s, new_way_nodes, way_nodes, idx, down) ==
    IF idx > Len(way_nodes) \/ s.exc # "none"
    THEN [s |-> s, new_way_nodes |-> new_way_nodes]
    ELSE LET appended == Append(new_way_nodes, way_nodes[idx])
         IN IF idx = Len(way_nodes)
            THEN WayLoop(s, appended, way_nodes, idx + 1, down)
            ELSE LET r == Segment(s, appended, way_nodes[idx], way_nodes[idx + 1], down)
                 IN WayLoop(r.s, r.new_way_nodes, way_nodes, idx + 1, down)

\* Line 111: new_way_nodes = way_nodes.copy()
NewWayNodes(way_nodes) == way_nodes

\* A slip of the index at line 163: way_nodes[0] for way_nodes[-1].
LastNodeSlip(way_nodes) == way_nodes[1]

\* Line 163: way_nodes[-1]
LastNode(way_nodes) == way_nodes[Len(way_nodes)]

\* Lines 166-168: every element whose id is way_id gets the new node list.
AssignWayNodes(elements, way_id, new_way_nodes) ==
    [j \in 1..Len(elements) |->
        IF elements[j].id = way_id
        THEN [f \in DOMAIN elements[j] \cup {"nodes"} |->
                 IF f = "nodes" THEN new_way_nodes ELSE elements[j][f]]
        ELSE elements[j]]

\* Lines 109-168: the way at position i of the elements.
InterpolateWay(s, i, down) ==
    LET way_nodes == s.elements[i].nodes
        way_id == s.elements[i].id
        r == WayLoop(s, NewWayNodes(way_nodes), way_nodes, 1, down)
    IN IF r.s.exc # "none" THEN r.s
       ELSE IF way_nodes = <<>> THEN Raise(r.s, "IndexError")
       ELSE [r.s EXCEPT !.elements =
                AssignWayNodes(@, way_id, Append(r.new_way_nodes, LastNode(way_nodes)))]

\* Lines 105-168: the loop over the elements; the list grows while it is
\* iterated and the loop runs over the appended elements too.
RECURSIVE InterpolateFrom(_, _, _)
InterpolateFrom(s, i, down) ==
    IF s.exc # "none" \/ i > Len(s.elements) THEN s
    ELSE IF s.elements[i].type # "way" THEN InterpolateFrom(s, i + 1, down)
    ELSE InterpolateFrom(InterpolateWay(s, i, down), i + 1, down)

\* The whole call on a loaded result.
InterpolateRun(down) ==
    InterpolateFrom([elements |-> overpass_result["elements"],
                     coords |-> node_coordinates,
                     queried |-> <<>>,
                     exc |-> "none"], 1, down)

(***************************************************************************)
(* Operations.  The model follows one reader through one pipeline: the     *)
(* result is loaded once, and interpolate_nodes is called once.            *)
(***************************************************************************)
\* step_size setter, lines 36-41: any value is stored.
SetStepSize(new_step_size) ==
    /\ outcome = "none"
    /\ step_size' = new_step_size
    /\ UNCHANGED <<overpass_result, node_coordinates, outcome,
                   pre_result, pre_coordinates, queried>>

\* get_highway_data_from_bbox, lines 58-86: the answer of the service holds
\* every node its ways refer to.
GetHighwayDataFromBbox ==
    /\ outcome = "none"
    /\ ~IsLoaded
    /\ \E lists \in UNION {[1..k -> WayNodeLists] : k \in 0..Len(WayIds)} :
          overpass_result' = ResultSet(NodesOf(lists), lists)
    /\ UNCHANGED <<step_size, node_coordinates, outcome,
                   pre_result, pre_coordinates, queried>>

\* get_highway_data_from_file, lines 88-93: any saved result, also one that
\* lacks nodes its ways refer to.
GetHighwayDataFromFile ==
    /\ outcome = "none"
    /\ ~IsLoaded
    /\ \E present \in SUBSET NodeIds :
       \E lists \in UNION {[1..k -> WayNodeLists] : k \in 0..Len(WayIds)} :
          overpass_result' = ResultSet(present, lists)
    /\ UNCHANGED <<step_size, node_coordinates, outcome,
                   pre_result, pre_coordinates, queried>>

\* extract_coordinates, lines 194-204.
RECURSIVE ExtractFrom(_, _, _)
ExtractFrom(elements, coords, i) ==
    IF i > Len(elements) THEN coords
    ELSE IF elements[i].type = "node"
    THEN ExtractFrom(elements,
                     Put(coords, elements[i].id, <<elements[i].lat, elements[i].lon>>),
                     i + 1)
    ELSE ExtractFrom(elements, coords, i + 1)

ExtractCoordinates ==
    /\ outcome = "none"
    /\ IsLoaded
    /\ node_coordinates' = ExtractFrom(overpass_result["elements"], node_coordinates, 1)
    /\ UNCHANGED <<step_size, overpass_result, outcome,
                   pre_result, pre_coordinates, queried>>

\* The ids the ways of the loaded result refer to and the coordinate dict
\* lacks: the only ids the collaborator can be asked for.
MissingIds ==
    {n \in NodeIds :
        /\ n \notin DOMAIN node_coordinates
        /\ \E i \in DOMAIN overpass_result["elements"] :
              /\ overpass_result["elements"][i].type = "way"
              /\ \E j \in DOMAIN overpass_result["elements"][i].nodes :
                    overpass_result["elements"][i].nodes[j] = n}

\* interpolate_nodes, lines 95-176, with write_to_file = False.  On a reader
\* that has loaded nothing, line 105 raises KeyError.  An exception leaves
\* what the run has written so far: the elements list and the coordinate
\* dict are modified in place.  `down` are the ids the collaborator fails for
\* during this call.
InterpolateNodes ==
    /\ outcome = "none"
    /\ pre_result' = overpass_result
    /\ pre_coordinates' = node_coordinates
    /\ IF ~IsLoaded
       THEN /\ outcome' = "KeyError"
            /\ UNCHANGED <<overpass_result, node_coordinates, queried>>
       ELSE \E down \in SUBSET MissingIds :
               LET s == InterpolateRun(down)
               IN /\ overpass_result' = [overpass_result EXCEPT !["elements"] = s.elements]
                  /\ node_coordinates' = s.coords
                  /\ queried' = s.queried
                  /\ outcome' = IF s.exc = "none" THEN "returned" ELSE s.exc
    /\ UNCHANGED step_size

Next ==
    \/ \E new_step_size \in StepSizes : SetStepSize(new_step_size)
    \/ GetHighwayDataFromBbox
    \/ GetHighwayDataFromFile
    \/ ExtractCoordinates
    \/ InterpolateNodes

Spec == Init /\ [][Next]_vars

(***************************************************************************)
(* Vocabulary of the properties.                                           *)
(***************************************************************************)
Called == outcome # "none"

Returned == outcome = "returned"

\* The elements before and after the call.
PreElements == Elements(pre_result)

PostElements == Elements(overpass_result)

\* The positions of the ways of the input; elements are only ever appended,
\* so a way keeps its position.
WayPositions == {i \in DOMAIN PreElements : PreElements[i].type = "way"}

\* The positions of the elements the call appended.
AppendedPositions == (Len(PreElements) + 1)..Len(PostElements)

SyntheticIds == {PostElements[k].id : k \in AppendedPositions}

\* The coordinate of an original node on the service's map, in ticks.
OsmCoord(n) == GetNodeLatLon(n, {})

\* The coordinate of a node after the call: the coordinate dict's entry, or
\* the service's for an original node the dict lacks.
CoordOf(n) == IF n \in DOMAIN node_coordinates THEN node_coordinates[n] ELSE OsmCoord(n)

\* Every segment of the node list ns of original nodes is within the step.
BelowThreshold(ns) ==
    \A j \in 1..(Len(ns) - 1) :
        ~DistExceeds(Distance2(OsmCoord(ns[j]), OsmCoord(ns[j + 1])), step_size)

\* ns without the ids the call made up.
Originals(ns) == LET IsOriginal(n) == n \notin SyntheticIds IN SelectSeq(ns, IsOriginal)

\* The interior samples of the segments j.. of ns: divisions - 2 for a
\* segment longer than the step, none for the others.
RECURSIVE InteriorSamples(_, _)
InteriorSamples(ns, j) ==
    IF j >= Len(ns) THEN 0
    ELSE LET d2 == Distance2(OsmCoord(ns[j]), OsmCoord(ns[j + 1]))
         IN (IF DistExceeds(d2, step_size) THEN NDivisions(d2, step_size) - 2 ELSE 0)
            + InteriorSamples(ns, j + 1)

RECURSIVE InteriorSamplesOfWays(_)
InteriorSamplesOfWays(i) ==
    IF i > Len(PreElements) THEN 0
    ELSE (IF PreElements[i].type = "way" THEN InteriorSamples(PreElements[i].nodes, 1) ELSE 0)
         + InteriorSamplesOfWays(i + 1)

NoDuplicates(q) == \A a, b \in DOMAIN q : a # b => q[a] # q[b]

(***************************************************************************)
(* The properties.                                                         *)
(***************************************************************************)
\* C1 -- Spacing bound: after interpolate_nodes returns with a positive step
\* size, any two consecutive nodes of any way's node list are at most the
\* step size apart.
SpacingBound ==
    (Returned /\ step_size > 0) =>
        \A i \in DOMAIN PostElements :
            PostElements[i].type = "way" =>
                \A j \in 1..(Len(PostElements[i].nodes) - 1) :
                    Distance2(CoordOf(PostElements[i].nodes[j]),
                              CoordOf(PostElements[i].nodes[j + 1]))
                        <= step_size * step_size

\* C2 -- Endpoint preservation: after a call of interpolate_nodes, every way
\* whose input node list is not empty has a node list that starts with the
\* input's first node id and ends with the input's last node id.
EndpointPreservation ==
    Called =>
        \A i \in WayPositions :
            PreElements[i].nodes # <<>> =>
                /\ PostElements[i].nodes # <<>>
                /\ PostElements[i].nodes[1] = PreElements[i].nodes[1]
                /\ PostElements[i].nodes[Len(PostElements[i].nodes)]
                       = PreElements[i].nodes[Len(PreElements[i].nodes)]

\* C2, its case: the call returned and rewrote, with additional nodes, a way
\* whose first and last node differ.
EndpointPreservationWitness ==
    /\ Returned
    /\ AppendedPositions # {}
    /\ \E i \in WayPositions :
          /\ Len(PreElements[i].nodes) >= 2
          /\ PreElements[i].nodes[1] # PreElements[i].nodes[Len(PreElements[i].nodes)]
          /\ PostElements[i].nodes # PreElements[i].nodes
          /\ \E j \in DOMAIN PostElements[i].nodes :
                PostElements[i].nodes[j] \in SyntheticIds

\* C3 -- No-op below threshold: after interpolate_nodes returns with a
\* positive step size, a way all of whose segments are within the step size
\* has its input node list, and when every way is such, no element and no
\* coordinate was added.
NoOpBelowThreshold ==
    (Returned /\ step_size > 0) =>
        /\ \A i \in WayPositions :
              BelowThreshold(PreElements[i].nodes) =>
                  PostElements[i].nodes = PreElements[i].nodes
        /\ (\A i \in WayPositions : BelowThreshold(PreElements[i].nodes)) =>
              /\ Len(PostElements) = Len(PreElements)
              /\ node_coordinates = pre_coordinates

\* C4 -- Order preservation: after interpolate_nodes returns, a way's node
\* list without the synthetic ids is its input node list.
OrderPreservation ==
    Returned =>
        \A i \in WayPositions :
            Originals(PostElements[i].nodes) = PreElements[i].nodes

\* C5 -- Interior samples only: after interpolate_nodes returns with a
\* positive step size, the node elements it appended are the interior
\* samples of the long segments, divisions - 2 for each, and no more.
InteriorSamplesOnly ==
    (Returned /\ step_size > 0) =>
        Len(PostElements) - Len(PreElements) = InteriorSamplesOfWays(1)

\* C6 -- Synthetic id uniqueness: after interpolate_nodes returns, having
\* run with a positive step size, no two node elements of the result set
\* carry the same id.
SyntheticIdUniqueness ==
    (Returned /\ step_size > 0) =>
        \A i, j \in DOMAIN PostElements :
            (/\ i # j
             /\ PostElements[i].type = "node"
             /\ PostElements[j].type = "node")
                => PostElements[i].id # PostElements[j].id

\* C7 -- Non-positive step size rejected up front: a call of
\* interpolate_nodes with a step size of zero or less ends with an error and
\* leaves the result set and the coordinate lookup as they were.
NonPositiveStepRejected ==
    (Called /\ step_size <= 0) =>
        /\ ~Returned
        /\ overpass_result = pre_result
        /\ node_coordinates = pre_coordinates

\* C8 -- All-or-nothing on failure: when the coordinate-resolution
\* collaborator fails during interpolate_nodes, the result set and the
\* coordinate lookup are as they were before the call.
AllOrNothingOnFailure ==
    outcome = "LookupError" =>
        /\ overpass_result = pre_result
        /\ node_coordinates = pre_coordinates

\* C9 -- Fallback results are cached: after interpolate_nodes returns, every
\* node id of a segment of a way is a key of the coordinate lookup, and the
\* collaborator was asked at most once for any node id.
FallbackResultsCached ==
    Returned =>
        /\ \A i \in WayPositions :
              Len(PreElements[i].nodes) >= 2 =>
                  \A j \in DOMAIN PreElements[i].nodes :
                      PreElements[i].nodes[j] \in DOMAIN node_coordinates
        /\ NoDuplicates(queried)

\* C10 -- Frame of densification: a call of interpolate_nodes with a
\* positive step size leaves every element that is not a way exactly as it
\* was, changes nothing of a way but its node list, and appends node
\* elements only.
DensificationFrame ==
    (Called /\ step_size > 0) =>
        /\ Len(PostElements) >= Len(PreElements)
        /\ \A i \in DOMAIN PreElements :
              IF PreElements[i].type = "way"
              THEN /\ DOMAIN PostElements[i] = DOMAIN PreElements[i]
                   /\ PostElements[i].type = "way"
                   /\ PostElements[i].id = PreElements[i].id
              ELSE PostElements[i] = PreElements[i]
        /\ \A k \in AppendedPositions : PostElements[k].type = "node"

====
